---- MODULE Spec2Model ----
(***************************************************************************)
(* A model of the captcha image renderer (image.go) and of the HTTP        *)
(* handler that serves it (server.go).                                     *)
(*                                                                         *)
(* Floating point values of the source are kept as exact fractions:       *)
(* calculateSizes works on (numerator, denominator) pairs, skew factors    *)
(* and warp amplitudes are counted in quarters (all of them dyadic, so    *)
(* float64 holds them exactly), and warp periods are 1, 2 or 4, for which  *)
(* sin and cos of 2*pi*k/period are -1, 0 or 1.                            *)
(***************************************************************************)
EXTENDS Integers, Sequences, FiniteSets, TLC

VARIABLES imgs, rngs, lay, pal, circ, dist, dig, http

vars == <<imgs, rngs, lay, pal, circ, dist, dig, http>>

\* The value of a variable group that a specification does not use.
Idle == [pc |-> "idle"]

----------------------------------------------------------------------------
(* Bounds of the model. *)

MaxDim == 56          \* largest canvas side of the layout specification
MaxDigits == 20       \* largest digit count of the layout specification
MaxCircleCount == 3   \* largest CircleCount of the palette specification
SampleWidth == 4      \* raw words a sampled stream draw chooses from
MaxAmp4 == 8          \* largest amplitude, in quarters, of the warp specification

----------------------------------------------------------------------------
(* Go arithmetic. *)

\* int(a/b) for b > 0: Go truncates toward zero.
Trunc(a, b) == IF a >= 0 THEN a \div b ELSE -((-a) \div b)

Min2(a, b) == IF a < b THEN a ELSE b
Max2(a, b) == IF a > b THEN a ELSE b

min3(x, y, z) == Min2(Min2(x, y), z)
max3(x, y, z) == Max2(Max2(x, y), z)

\* uint8(v) of an int v.
Uint8(v) == v % 256

----------------------------------------------------------------------------
(* The seeded stream (siprng).  Its state is the seed, the number of words *)
(* drawn so far, and a tape: the words the stream yields first.  Past the  *)
(* tape the words are a fixed function of seed and position.  A            *)
(* specification that explores every outcome of a draw fills the tape      *)
(* with every choice of words; NewImage seeds a stream with an empty tape. *)

RawSize == 1009

Raw(seed, pos) ==
    ((seed * 31 + 7) * (pos * 17 + 3) + seed * seed + 5 * pos * pos) % RawSize

\* deriveSeed(purpose, id, digits): a fixed mix of the three.
RECURSIVE MixDigits(_, _)
MixDigits(digits, acc) ==
    IF digits = <<>> THEN acc
    ELSE MixDigits(Tail(digits), (acc * 11 + Head(digits) + 1) % 997)

imageSeedPurpose == 2

deriveSeed(purpose, id, digits) ==
    (purpose * 389 + id * 131 + MixDigits(digits, 5)) % 997

Seeded(seed) == [seed |-> seed, pos |-> 0, tape |-> <<>>]
Taped(tape) == [seed |-> 0, pos |-> 0, tape |-> tape]

\* The next word of the stream, and the stream after drawing it.
Word(rng) ==
    IF rng.pos < Len(rng.tape) THEN rng.tape[rng.pos + 1]
    ELSE Raw(rng.seed, rng.pos)

Drawn(rng) == [rng EXCEPT !.pos = @ + 1]

\* Skip(rng, k): the stream after k draws.
Skip(rng, k) == [rng EXCEPT !.pos = @ + k]

\* Intn(n), n > 0: the next word reduced to [0, n); even words count up
\* from 0, odd words count down from n-1.
Intn(rng, n) ==
    LET word == Word(rng)
    IN  IF word % 2 = 0 THEN (word \div 2) % n
        ELSE (n - 1) - ((word \div 2) % n)

\* rng.Int(from, to), from <= to: Intn(to+1-from) + from.
IntIn(rng, from, to) == Intn(rng, to + 1 - from) + from

\* Float(from, to) in quarters: from + (to-from)*u, u one of 0, 1/4, 1/2,
\* 3/4.  The ranges used have a whole width, so the result is exact.
Float4(rng, from4, to4) == from4 + ((to4 - from4) * (Word(rng) % 4)) \div 4

----------------------------------------------------------------------------
(* Palette: getRandomPalette and randomBrightness.  A palette is a         *)
(* sequence; the source's p[k] is palette[k+1].                            *)

RGBA(r, g, b, a) == [R |-> r, G |-> g, B |-> b, A |-> a]

\* The argument of Intn in randomBrightness: int(max - maxc).
BrightnessSpan(c, max) == max - max3(c.R, c.G, c.B)

\* An n counted from the largest channel instead of the smallest.
BrightnessDeltaFromMax(c, d) == d - max3(c.R, c.G, c.B)

\* n of randomBrightness for a draw d of Intn.
BrightnessDelta(c, d) == d - min3(c.R, c.G, c.B)

\* A variant that moves each channel by its own amount.
randomBrightnessPerChannel(c, max, d) ==
    IF max3(c.R, c.G, c.B) > max THEN c
    ELSE RGBA(Uint8(c.R + (d - c.R)), Uint8(c.G + (d - c.G)),
              Uint8(c.B + (d - c.B)), c.A)

\* randomBrightness(c, max) with the draw d.
randomBrightness(c, max, d) ==
    IF max3(c.R, c.G, c.B) > max THEN c
    ELSE LET n == BrightnessDelta(c, d)
         IN  RGBA(Uint8(c.R + n), Uint8(c.G + n), Uint8(c.B + n), c.A)

\* The draw randomBrightness makes on rng for the colour c.
BrightnessDraw(c, max, rng) == Intn(rng, BrightnessSpan(c, max))

\* The loop "for i := 2; i <= circleCount; i++".
RECURSIVE CircleColors(_, _, _, _, _)
CircleColors(i, circleCount, prim, rng, p) ==
    IF i > circleCount THEN [ok |-> TRUE, rng |-> rng, palette |-> p]
    ELSE CircleColors(i + 1, circleCount, prim, Drawn(rng),
            Append(p, randomBrightness(prim, 255,
                                       BrightnessDraw(prim, 255, rng))))

\* getRandomPalette(circleCount).  make panics on a negative length, p[0]
\* on an empty slice, and p[1], after the three draws, on a slice of one.
getRandomPalette(circleCount, rng) ==
    IF circleCount < 0 THEN [ok |-> FALSE, rng |-> rng, palette |-> <<>>]
    ELSE IF circleCount = 0
    THEN [ok |-> FALSE, rng |-> Skip(rng, 3), palette |-> <<>>]
    ELSE LET r1 == Drawn(rng)
             r2 == Drawn(r1)
             r3 == Drawn(r2)
             prim == RGBA(Intn(rng, 129), Intn(r1, 129), Intn(r2, 129), 255)
         IN  CircleColors(2, circleCount, prim, r3,
                          <<RGBA(255, 255, 255, 0), prim>>)

\* The tapes a sampled stream of k draws starts with.
Tapes(k) == [1..k -> 0..(SampleWidth - 1)]

----------------------------------------------------------------------------
(* Layout: calculateSizes and the anchor ranges of NewImage. *)

fontWidth == 11
fontHeight == 18

\* border of calculateSizes: a fifth of the smaller side.
SizeBorder(width, height) ==
    IF width > height THEN height \div 5 ELSE width \div 5

\* calculateSizes(width, height, ncount) for width, height >= 0.  nw and nh
\* are the exact fractions nwNum/nwDen and nhNum/nhDen; with ncount = 0 the
\* source's nw is +Inf, so "nh > h" holds and the height decides.
calculateSizes(width, height, ncount) ==
    LET border == SizeBorder(width, height)
        w == width - border * 2
        h == height - border * 2
        fw == fontWidth + 1
        fh == fontHeight
        tooHigh == IF ncount = 0 THEN TRUE ELSE w * fh > h * ncount * fw
        nwNum == IF tooHigh THEN fw * h ELSE w
        nwDen == IF tooHigh THEN fh ELSE ncount
        nhNum == IF tooHigh THEN h ELSE w * fh
        nhDen == IF tooHigh THEN 1 ELSE ncount * fw
        ds == nhNum \div (nhDen * fh)
        dotSize == IF ds < 1 THEN 1 ELSE ds
    IN  [numWidth  |-> (nwNum \div nwDen) - dotSize,
         numHeight |-> nhNum \div nhDen,
         dotSize   |-> dotSize,
         tooHigh   |-> tooHigh]

\* border of NewImage: a sixth of the smaller side.
AnchorBorder(width, height) ==
    IF width > height THEN height \div 6 ELSE width \div 6

\* The arguments of m.rng.Int for the anchor's x and y.
AnchorXRange(width, height, ncount, sz) ==
    LET maxx == width - (sz.numWidth + sz.dotSize) * ncount - sz.dotSize
        border == AnchorBorder(width, height)
    IN  [lo |-> border, hi |-> maxx - border]

AnchorYRange(width, height, sz) ==
    LET maxy == height - sz.numHeight - sz.dotSize * 2
        border == AnchorBorder(width, height)
    IN  [lo |-> border, hi |-> maxy - border]

\* The digit block: ncount cells of numWidth+dotSize and one more dot wide,
\* numHeight and two dots high.
BlockWidth(ncount, sz) == ncount * (sz.numWidth + sz.dotSize) + sz.dotSize
BlockHeight(sz) == sz.numHeight + 2 * sz.dotSize

----------------------------------------------------------------------------
(* The raster: a function from the pixels <<x, y>> of the canvas to        *)
(* palette indices (image.Paletted).                                       *)

Pixels(width, height) == (0..(width - 1)) \X (0..(height - 1))

\* image.NewPaletted: every pixel holds index 0.
NewPaletted(width, height) == [p \in Pixels(width, height) |-> 0]

\* SetColorIndex on every pixel of the set ps; pixels outside the canvas
\* are dropped.
Paint(pix, ps, colorIdx) ==
    [p \in DOMAIN pix |-> IF p \in ps THEN colorIdx ELSE pix[p]]

\* ColorIndexAt: index 0 outside the canvas.
ColorIndexAt(pix, x, y) ==
    IF <<x, y>> \in DOMAIN pix THEN pix[<<x, y>>] ELSE 0

\* The loop "for xo < yo" of drawCircle.  A span <<a, b, dy>> is the
\* horizontal line from x+a to x+b at y+dy.
RECURSIVE CircleSpans(_, _, _, _, _, _)
CircleSpans(f, dfx, dfy, xo, yo, spans) ==
    IF ~(xo < yo) THEN spans
    ELSE LET dec == f >= 0
             yo1 == IF dec THEN yo - 1 ELSE yo
             dfy1 == IF dec THEN dfy + 2 ELSE dfy
             f1 == IF dec THEN f + dfy1 ELSE f
             xo1 == xo + 1
             dfx1 == dfx + 2
             f2 == f1 + dfx1
         IN  CircleSpans(f2, dfx1, dfy1, xo1, yo1,
                 spans \cup {<<-xo1, xo1, yo1>>, <<-xo1, xo1, -yo1>>,
                             <<-yo1, yo1, xo1>>, <<-yo1, yo1, -xo1>>})

\* The pixels drawCircle(x, y, radius, _) sets, on or off the canvas.
CirclePixels(x, y, radius) ==
    LET spans == CircleSpans(1 - radius, 1, -2 * radius, 0, radius,
                     {<<0, 0, radius>>, <<0, 0, -radius>>,
                      <<-radius, radius, 0>>})
    IN  UNION {{<<x + dx, y + s[3]>> : dx \in s[1]..s[2]} : s \in spans}

drawCircle(pix, x, y, radius, colorIdx) ==
    Paint(pix, CirclePixels(x, y, radius), colorIdx)

----------------------------------------------------------------------------
(* Glyphs: drawDigit. *)

\* font[n][yo*fontWidth+xo] = blackChar: the glyph bitmaps, one fixed
\* pattern a digit.
FontBlack(n, xo, yo) == (xo + 2 * yo + n) % 3 = 0

\* A radius of the whole dot size.
DigitRadiusWhole(dotSize) == dotSize

\* r of drawDigit: the radius of a glyph dot and the bound of the jitter.
DigitRadius(dotSize) == dotSize \div 2

\* The arguments of m.rng.Int for the vertical jitter of a glyph.
JitterRange(dotSize) ==
    [lo |-> -DigitRadius(dotSize), hi |-> DigitRadius(dotSize)]

\* x of drawDigit while row yo is drawn: xs += skf and x = int(xs) after
\* each row.
SkewedX(x, skf4, yo) == IF yo = 0 THEN x ELSE Trunc(4 * x + yo * skf4, 4)

\* The centres of the dots of a glyph drawn at (x, y) with skew skf4 and
\* jitter jit, each with its row.
DigitCentres(n, x, y, skf4, jit, dotSize) ==
    {[x |-> SkewedX(x, skf4, yo) + xo * dotSize,
      y |-> (y + jit) + yo * dotSize, row |-> yo] :
        <<xo, yo>> \in {c \in (0..(fontWidth - 1)) \X (0..(fontHeight - 1)) :
                           FontBlack(n, c[1], c[2])}}

\* drawDigit(font[n], x, y, MaxSkew): two draws, the skew and the jitter.
DigitDraws(MaxSkew4, dotSize, rng) ==
    LET jr == JitterRange(dotSize)
    IN  [skf4 |-> Float4(rng, -MaxSkew4, MaxSkew4),
         jit |-> IntIn(Drawn(rng), jr.lo, jr.hi),
         rng |-> Skip(rng, 2)]

drawDigit(pix, n, x, y, MaxSkew4, dotSize, rng) ==
    LET d == DigitDraws(MaxSkew4, dotSize, rng)
        cs == DigitCentres(n, x, y, d.skf4, d.jit, dotSize)
    IN  [rng |-> d.rng,
         pix |-> Paint(pix,
                   UNION {CirclePixels(c.x, c.y, DigitRadius(dotSize)) :
                             c \in cs}, 1)]

----------------------------------------------------------------------------
(* Warps.  sin and cos of 2*pi*k/period for a period of 1, 2 or 4, counted *)
(* in quarters (4, 8, 16).                                                 *)

Sin(k, period4) ==
    IF period4 = 16 THEN <<0, 1, 0, -1>>[(k % 4) + 1] ELSE 0

Cos(k, period4) ==
    IF period4 = 16 THEN <<1, 0, -1, 0>>[(k % 4) + 1]
    ELSE IF period4 = 8 THEN <<1, -1>>[(k % 2) + 1]
    ELSE 1

\* The loop "for yn := 0; yn < r0; yn++" of strikeThrough.
RECURSIVE StrikeDots(_, _, _, _, _, _, _)
StrikeDots(yn, r0, cx, cy, dotSize, rng, pix) ==
    IF ~(yn < r0) THEN [rng |-> rng, pix |-> pix]
    ELSE LET r == IntIn(rng, 0, dotSize)
         IN  StrikeDots(yn + 1, r0, cx, cy, dotSize, Drawn(rng),
                 drawCircle(pix, cx, cy + yn * dotSize, r \div 2, 1))

\* The loop "for x := 0; x < maxx; x++" of strikeThrough.
RECURSIVE StrikeColumns(_, _, _, _, _, _, _, _)
StrikeColumns(x, maxx, y, amp4, period4, dotSize, rng, pix) ==
    IF ~(x < maxx) THEN [rng |-> rng, pix |-> pix]
    ELSE LET xo == Trunc(amp4 * Cos(y, period4), 4)
             yo == Trunc(amp4 * Sin(x, period4), 4)
             r0 == IntIn(rng, 0, (2 * dotSize) \div 3)
             dots == StrikeDots(0, r0, x + xo, y + yo, dotSize,
                                Drawn(rng), pix)
         IN  StrikeColumns(x + 1, maxx, y, amp4, period4, dotSize,
                           dots.rng, dots.pix)

\* strikeThrough(ampMin, ampMax, perMin, perMax) on a canvas of maxx by
\* maxy.
strikeThrough(pix, warp, maxx, maxy, dotSize, rng) ==
    LET y == IntIn(rng, maxy \div 3, maxy - maxy \div 3)
        r1 == Drawn(rng)
        amp4 == Float4(r1, warp.AmpMin4, warp.AmpMax4)
        r2 == Drawn(r1)
        period4 == Float4(r2, warp.PeriodMin4, warp.PeriodMax4)
    IN  StrikeColumns(0, maxx, y, amp4, period4, dotSize, Drawn(r2), pix)

\* The source pixel distort reads for the destination (x, y).
WarpSource(x, y, amp4, period4) ==
    <<x + Trunc(amp4 * Sin(y, period4), 4),
      y + Trunc(amp4 * Cos(x, period4), 4)>>

\* A distort that writes into the raster it reads.
DistortWriteInPlace(grids, p, v) ==
    [oldm |-> [grids.oldm EXCEPT ![p] = v],
     newm |-> [grids.newm EXCEPT ![p] = v]]

\* newm.SetColorIndex(x, y, v): a write to the new grid alone.
DistortWrite(grids, p, v) ==
    [oldm |-> grids.oldm, newm |-> [grids.newm EXCEPT ![p] = v]]

\* The loops of distort, x outside and y inside; k counts the pixels done.
RECURSIVE DistortLoop(_, _, _, _, _, _)
DistortLoop(k, w, h, amp4, period4, grids) ==
    IF k >= w * h THEN grids.newm
    ELSE LET x == k \div h
             y == k % h
             src == WarpSource(x, y, amp4, period4)
         IN  DistortLoop(k + 1, w, h, amp4, period4,
                 DistortWrite(grids, <<x, y>>,
                              ColorIndexAt(grids.oldm, src[1], src[2])))

\* distort(amplude, period) on a canvas of w by h.
distort(pix, amp4, period4, w, h) ==
    DistortLoop(0, w, h, amp4, period4,
                [oldm |-> pix, newm |-> NewPaletted(w, h)])

----------------------------------------------------------------------------
(* Background circles: fillWithCircles. *)

\* The arguments of m.rng.Int for a circle's colour, radius and centre.
CircleColorRange(n) == [lo |-> 1, hi |-> n - 1]
CircleRadiusRange(maxradius) == [lo |-> 1, hi |-> maxradius]
CircleCentreRange(r, max) == [lo |-> r, hi |-> max - r]

Empty(range) == range.lo > range.hi

\* One turn of the loop of fillWithCircles: four draws and a circle.  A
\* draw with lo > hi ends the render.
FillOne(n, maxradius, maxx, maxy, rng) ==
    LET cr == CircleColorRange(n)
        rr == CircleRadiusRange(maxradius)
        colorIdx == Uint8(IntIn(rng, cr.lo, cr.hi))
        r == IntIn(Drawn(rng), rr.lo, rr.hi)
        xr == CircleCentreRange(r, maxx)
        yr == CircleCentreRange(r, maxy)
        cx == IntIn(Skip(rng, 2), xr.lo, xr.hi)
        cy == IntIn(Skip(rng, 3), yr.lo, yr.hi)
        failed == IF Empty(cr) THEN 0 ELSE IF Empty(rr) THEN 1
                  ELSE IF Empty(xr) THEN 2 ELSE 3
    IN  IF Empty(cr) \/ Empty(rr) \/ Empty(xr) \/ Empty(yr)
        THEN [ok |-> FALSE, rng |-> Skip(rng, failed), circle |-> <<>>]
        ELSE [ok |-> TRUE, rng |-> Skip(rng, 4),
              circle |-> [x |-> cx, y |-> cy, r |-> r, colorIdx |-> colorIdx]]

\* The loop "for i := 0; i < n; i++" of fillWithCircles.
RECURSIVE FillLoop(_, _, _, _, _, _, _, _)
FillLoop(i, n, maxradius, maxx, maxy, rng, pix, circles) ==
    IF ~(i < n) THEN [ok |-> TRUE, rng |-> rng, pix |-> pix,
                      circles |-> circles]
    ELSE LET one == FillOne(n, maxradius, maxx, maxy, rng)
             c == one.circle
         IN  IF ~one.ok THEN [ok |-> FALSE, rng |-> one.rng, pix |-> pix,
                              circles |-> circles]
             ELSE FillLoop(i + 1, n, maxradius, maxx, maxy, one.rng,
                           drawCircle(pix, c.x, c.y, c.r, c.colorIdx),
                           Append(circles, c))

fillWithCircles(pix, n, maxradius, maxx, maxy, rng) ==
    FillLoop(0, n, maxradius, maxx, maxy, rng, pix, <<>>)

----------------------------------------------------------------------------
(* Spec: two renders (NewImage) of one handler's width, height and         *)
(* options, each of its own identifier and digits, interleaved stage by    *)
(* stage.                                                                  *)

Images == {1, 2}

\* One stream shared by every image.
RngShared(i) == 1

\* The stream an image draws from: the rng field of its own Image.
RngOf(i) == i

\* The stages with the circles drawn before the distortion.
StageAfterCirclesFirst(stage) ==
    CASE stage = "seed" -> "palette"
      [] stage = "palette" -> "layout"
      [] stage = "layout" -> "anchor"
      [] stage = "anchor" -> "digits"
      [] stage = "digits" -> "strike"
      [] stage = "strike" -> "circles"
      [] stage = "circles" -> "distort"
      [] stage = "distort" -> "done"

\* The stages of NewImage in the order of its statements.
StageAfter(stage) ==
    CASE stage = "seed" -> "palette"
      [] stage = "palette" -> "layout"
      [] stage = "layout" -> "anchor"
      [] stage = "anchor" -> "digits"
      [] stage = "digits" -> "strike"
      [] stage = "strike" -> "distort"
      [] stage = "distort" -> "circles"
      [] stage = "circles" -> "done"

\* The stage entered after `stage`: a loop of no turns is passed over.
RECURSIVE Advance(_, _)
Advance(m, stage) ==
    LET next == StageAfter(stage)
    IN  IF next = "digits" /\ Len(m.digits) = 0 THEN Advance(m, next)
        ELSE IF next = "strike" /\ m.opts.StrikeCount <= 0
        THEN Advance(m, next)
        ELSE next

Warp(ampMin4, ampMax4, period4) ==
    [AmpMin4 |-> ampMin4, AmpMax4 |-> ampMax4,
     PeriodMin4 |-> period4, PeriodMax4 |-> period4]

\* The options of a handler: skew up to 1/2, a canvas warp of amplitude
\* 0..2 and period 4, a strike warp of amplitude 1..2 and period 2.
OptsOf(circleCount, strikeCount) ==
    [CircleCount |-> circleCount, StrikeCount |-> strikeCount,
     MaxSkew4 |-> 2, CanvasWarp |-> Warp(0, 8, 16),
     StrikeWarp |-> Warp(4, 8, 8)]

Canvases == {<<5, 8>>, <<4, 4>>}
Ids == {1, 2}
StrikeCounts == {0, 1}
DigitChoices == {<<>>, <<0>>, <<7>>, <<1, 7>>}

NewImageCall(id, digits, width, height, opts) ==
    [id |-> id, digits |-> digits, width |-> width, height |-> height,
     opts |-> opts, pc |-> "seed", palette |-> <<>>, pix |-> <<>>,
     sz |-> <<>>, x0 |-> 0, x |-> 0, y |-> 0, di |-> 0, si |-> 0,
     log |-> <<>>, draws |-> <<>>, pre |-> <<>>, warp |-> <<>>,
     circles |-> <<>>]

Init ==
    /\ \E c \in Canvases, cc \in 0..MaxCircleCount,
          sc \in StrikeCounts :
          imgs \in [Images -> {NewImageCall(id, ds, c[1], c[2], OptsOf(cc, sc)) :
                                  id \in Ids, ds \in DigitChoices}]
    /\ rngs = [i \in Images |-> Seeded(0)]
    /\ lay = Idle /\ pal = Idle /\ circ = Idle
    /\ dist = Idle /\ dig = Idle /\ http = Idle

\* The words a stage drew: those between the stream before and after it.
WordsDrawn(before, after) ==
    [k \in 1..(after.pos - before.pos) |-> Word(Skip(before, k - 1))]

\* The state after a stage of image i that left the image as m and its
\* stream as rng; the stage ends the render when it panicked.
Staged(i, m, rng, ok) ==
    /\ imgs' = [imgs EXCEPT ![i] =
          [m EXCEPT !.pc = IF ok THEN Advance(m, imgs[i].pc) ELSE "panic",
                    !.log = Append(@, imgs[i].pc),
                    !.draws = @ \o WordsDrawn(rngs[RngOf(i)], rng)]]
    /\ rngs' = [rngs EXCEPT ![RngOf(i)] = rng]
    /\ UNCHANGED <<lay, pal, circ, dist, dig, http>>

\* m.rng.Seed(deriveSeed(imageSeedPurpose, id, digits))
SeedRng(i) ==
    /\ imgs[i].pc = "seed"
    /\ imgs' = [imgs EXCEPT ![i].pc = Advance(imgs[i], "seed"),
                            ![i].log = Append(@, "seed")]
    /\ rngs' = [rngs EXCEPT ![RngOf(i)] =
          Seeded(deriveSeed(imageSeedPurpose, imgs[i].id, imgs[i].digits))]
    /\ UNCHANGED <<lay, pal, circ, dist, dig, http>>

\* m.Paletted = image.NewPaletted(..., m.getRandomPalette(CircleCount))
MakePaletted(i) ==
    /\ imgs[i].pc = "palette"
    /\ LET m == imgs[i]
           res == getRandomPalette(m.opts.CircleCount, rngs[RngOf(i)])
       IN  Staged(i, [m EXCEPT !.palette = res.palette,
                               !.pix = IF res.ok
                                       THEN NewPaletted(m.width, m.height)
                                       ELSE <<>>],
                  res.rng, res.ok)

\* m.calculateSizes(width, height, len(digits))
CalculateSizes(i) ==
    /\ imgs[i].pc = "layout"
    /\ LET m == imgs[i]
       IN  Staged(i, [m EXCEPT !.sz = calculateSizes(m.width, m.height,
                                                     Len(m.digits))],
                  rngs[RngOf(i)], TRUE)

\* The two draws of the anchor.
PickAnchor(i) ==
    /\ imgs[i].pc = "anchor"
    /\ LET m == imgs[i]
           rng == rngs[RngOf(i)]
           xr == AnchorXRange(m.width, m.height, Len(m.digits), m.sz)
           yr == AnchorYRange(m.width, m.height, m.sz)
           x == IntIn(rng, xr.lo, xr.hi)
           y == IntIn(Drawn(rng), yr.lo, yr.hi)
       IN  IF Empty(xr) THEN Staged(i, m, rng, FALSE)
           ELSE IF Empty(yr)
           THEN Staged(i, [m EXCEPT !.x = x, !.x0 = x], Drawn(rng), FALSE)
           ELSE Staged(i, [m EXCEPT !.x = x, !.x0 = x, !.y = y],
                       Skip(rng, 2), TRUE)

\* One turn of "for _, n := range digits": the glyph, then the cursor.
DrawDigit(i) ==
    /\ imgs[i].pc = "digits"
    /\ LET m == imgs[i]
           res == drawDigit(m.pix, m.digits[m.di + 1], m.x, m.y,
                            m.opts.MaxSkew4, m.sz.dotSize, rngs[RngOf(i)])
           m1 == [m EXCEPT !.pix = res.pix, !.di = @ + 1,
                           !.x = @ + m.sz.numWidth + m.sz.dotSize]
       IN  IF m1.di < Len(m.digits)
           THEN /\ imgs' = [imgs EXCEPT ![i] =
                     [m1 EXCEPT !.log = Append(@, "digits"),
                                !.draws = @ \o WordsDrawn(rngs[RngOf(i)],
                                                          res.rng)]]
                /\ rngs' = [rngs EXCEPT ![RngOf(i)] = res.rng]
                /\ UNCHANGED <<lay, pal, circ, dist, dig, http>>
           ELSE Staged(i, m1, res.rng, TRUE)

\* One turn of "for i := 0; i < opts.StrikeCount; i++".
StrikeThrough(i) ==
    /\ imgs[i].pc = "strike"
    /\ LET m == imgs[i]
           res == strikeThrough(m.pix, m.opts.StrikeWarp, m.width, m.height,
                                m.sz.dotSize, rngs[RngOf(i)])
           m1 == [m EXCEPT !.pix = res.pix, !.si = @ + 1]
       IN  IF m1.si < m.opts.StrikeCount
           THEN /\ imgs' = [imgs EXCEPT ![i] =
                     [m1 EXCEPT !.log = Append(@, "strike"),
                                !.draws = @ \o WordsDrawn(rngs[RngOf(i)],
                                                          res.rng)]]
                /\ rngs' = [rngs EXCEPT ![RngOf(i)] = res.rng]
                /\ UNCHANGED <<lay, pal, circ, dist, dig, http>>
           ELSE Staged(i, m1, res.rng, TRUE)

\* The two draws of the canvas warp and m.distort(amp, per).  pre and warp
\* record the raster and the warp the distortion was given.
Distort(i) ==
    /\ imgs[i].pc = "distort"
    /\ LET m == imgs[i]
           rng == rngs[RngOf(i)]
           w == m.opts.CanvasWarp
           amp4 == Float4(rng, w.AmpMin4, w.AmpMax4)
           per4 == Float4(Drawn(rng), w.PeriodMin4, w.PeriodMax4)
       IN  Staged(i, [m EXCEPT !.pre = m.pix,
                               !.warp = [amp4 |-> amp4, period4 |-> per4],
                               !.pix = distort(m.pix, amp4, per4,
                                               m.width, m.height)],
                  Skip(rng, 2), TRUE)

\* m.fillWithCircles(opts.CircleCount, m.dotSize)
FillWithCircles(i) ==
    /\ imgs[i].pc = "circles"
    /\ LET m == imgs[i]
           res == fillWithCircles(m.pix, m.opts.CircleCount, m.sz.dotSize,
                                  m.width, m.height, rngs[RngOf(i)])
       IN  Staged(i, [m EXCEPT !.pix = res.pix, !.circles = res.circles],
                  res.rng, res.ok)

Next ==
    \E i \in Images :
        \/ SeedRng(i)
        \/ MakePaletted(i)
        \/ CalculateSizes(i)
        \/ PickAnchor(i)
        \/ DrawDigit(i)
        \/ StrikeThrough(i)
        \/ Distort(i)
        \/ FillWithCircles(i)

Spec == Init /\ [][Next]_vars

Finished(m) == m.pc \in {"done", "panic"}

SameInputs(a, b) ==
    /\ a.id = b.id /\ a.digits = b.digits
    /\ a.width = b.width /\ a.height = b.height /\ a.opts = b.opts

\* C1: two NewImage calls with identical inputs perform the same sequence
\* of stream draws and end with the identical palette and the identical
\* palette index at every pixel, whatever else runs beside them: after
\* the same number of stages they are in the same state.
C1_Determinism ==
    \A i \in Images, j \in Images :
        (SameInputs(imgs[i], imgs[j])
           /\ Len(imgs[i].log) = Len(imgs[j].log)) =>
            /\ imgs[i].draws = imgs[j].draws
            /\ imgs[i].palette = imgs[j].palette
            /\ imgs[i].pix = imgs[j].pix
            /\ imgs[i].pc = imgs[j].pc

\* Two finished renders of the same inputs, with glyph pixels and circles.
C1_Witness ==
    /\ SameInputs(imgs[1], imgs[2])
    /\ imgs[1].pc = "done" /\ imgs[2].pc = "done"
    /\ Len(imgs[1].digits) = 2
    /\ Len(imgs[1].draws) > 10
    /\ \E p \in DOMAIN imgs[1].pre : imgs[1].pre[p] = 1
    /\ \E p \in DOMAIN imgs[1].pix : imgs[1].pix[p] = 2

\* The stages of a complete render of m, in order.
ExpectedLog(m) ==
    <<"seed", "palette", "layout", "anchor">>
      \o [k \in 1..Len(m.digits) |-> "digits"]
      \o [k \in 1..Max2(m.opts.StrikeCount, 0) |-> "strike"]
      \o <<"distort", "circles">>

IsPrefix(s, t) == Len(s) <= Len(t) /\ s = SubSeq(t, 1, Len(s))

\* The colour of the last circle of cs that covers p, 0 when none does.
RECURSIVE LastCircleOn(_, _)
LastCircleOn(cs, p) ==
    IF cs = <<>> THEN 0
    ELSE LET c == cs[Len(cs)]
         IN  IF p \in CirclePixels(c.x, c.y, c.r) THEN Len(cs)
             ELSE LastCircleOn(SubSeq(cs, 1, Len(cs) - 1), p)

\* C8: the stages of every NewImage run happen in the order seed,
\* palette and blank raster, layout, anchor, every glyph (the cursor
\* advanced by numWidth+dotSize after each), every strike-through, one
\* distort, the background circles; the distort is given the raster with
\* every glyph and strike-through on it, and every background circle is
\* drawn on the distorted raster and never remapped.
C8_PipelineOrder ==
    \A i \in Images :
        LET m == imgs[i]
        IN  /\ IsPrefix(m.log, ExpectedLog(m))
            /\ m.pc = "done" => m.log = ExpectedLog(m)
            /\ m.pc \in {"digits", "strike", "distort", "circles", "done"} =>
                  m.x = m.x0 + m.di * (m.sz.numWidth + m.sz.dotSize)
            /\ m.pc \in {"circles", "done"} =>
                  /\ m.di = Len(m.digits)
                  /\ m.si = Max2(m.opts.StrikeCount, 0)
            /\ m.pc \in {"circles", "done"} => m.warp # <<>>
            /\ m.pc = "circles" =>
                  \A p \in DOMAIN m.pix :
                      LET src == WarpSource(p[1], p[2], m.warp.amp4,
                                            m.warp.period4)
                      IN  m.pix[p] = ColorIndexAt(m.pre, src[1], src[2])
            /\ m.pc = "done" =>
                  /\ Len(m.circles) = m.opts.CircleCount
                  /\ \A p \in DOMAIN m.pix :
                      LET k == LastCircleOn(m.circles, p)
                          src == WarpSource(p[1], p[2], m.warp.amp4,
                                            m.warp.period4)
                      IN  m.pix[p] = IF k > 0 THEN m.circles[k].colorIdx
                                     ELSE ColorIndexAt(m.pre, src[1], src[2])

\* A complete render of two digits and a strike-through in which the
\* warp moved a glyph pixel and a circle changed a pixel of the warped
\* raster.
C8_Witness ==
    \E i \in Images :
        LET m == imgs[i]
        IN  /\ m.pc = "done" /\ Len(m.digits) = 2
            /\ m.opts.StrikeCount = 1 /\ m.warp.amp4 >= 4
            /\ \E p \in DOMAIN m.pix :
                  /\ LastCircleOn(m.circles, p) = 0
                  /\ m.pix[p] = 1 /\ m.pre[p] = 0
            /\ \E p \in DOMAIN m.pix :
                  LET src == WarpSource(p[1], p[2], m.warp.amp4,
                                        m.warp.period4)
                  IN  /\ LastCircleOn(m.circles, p) > 0
                      /\ m.pix[p] # ColorIndexAt(m.pre, src[1], src[2])

\* What C6 calls invalid input: no digits, a non-positive side, cell
\* dimensions that are not positive, or a stream draw with lo > hi.
DrawRejected(m) ==
    \/ /\ m.pc = "panic" /\ Len(m.log) >= 4 /\ m.log[Len(m.log)] = "anchor"
    \/ /\ m.pc = "panic" /\ Len(m.log) >= 4 /\ m.log[Len(m.log)] = "circles"

InvalidInput(m) ==
    \/ Len(m.digits) = 0
    \/ m.width <= 0 \/ m.height <= 0
    \/ m.sz # <<>> /\ (m.sz.numWidth <= 0 \/ m.sz.numHeight <= 0)
    \/ DrawRejected(m)

DrawingStages == {"digits", "strike", "distort", "circles"}

\* C6: a render of invalid input reports an error before any pixel is
\* drawn and returns no raster.
C6_InvalidInputRejected ==
    \A i \in Images :
        LET m == imgs[i]
        IN  InvalidInput(m) =>
              /\ m.pc # "done"
              /\ \A k \in 1..(Len(m.log) - 1) : m.log[k] \notin DrawingStages

----------------------------------------------------------------------------
(* SpecLayout: the layout and anchor computation of NewImage on canvases   *)
(* of 50 and more pixels a side.                                           *)

LayoutInit ==
    /\ lay \in [pc : {"start"}, width : 50..MaxDim, height : 50..MaxDim,
                ncount : 1..MaxDigits]
    /\ imgs = Idle /\ rngs = Idle /\ pal = Idle /\ circ = Idle
    /\ dist = Idle /\ dig = Idle /\ http = Idle

\* NewImage, lines 83..95: the sizes, then the two anchor draws; a draw
\* with lo > hi ends the render.
PlaceBlock ==
    /\ lay.pc = "start"
    /\ LET sz == calculateSizes(lay.width, lay.height, lay.ncount)
           xr == AnchorXRange(lay.width, lay.height, lay.ncount, sz)
           yr == AnchorYRange(lay.width, lay.height, sz)
       IN  lay' = [pc |-> IF xr.lo <= xr.hi /\ yr.lo <= yr.hi
                          THEN "anchored" ELSE "panic",
                   width |-> lay.width, height |-> lay.height,
                   ncount |-> lay.ncount, sz |-> sz, xr |-> xr, yr |-> yr]
    /\ UNCHANGED <<imgs, rngs, pal, circ, dist, dig, http>>

LayoutNext == PlaceBlock

SpecLayout == LayoutInit /\ [][LayoutNext]_vars

\* C3: for every digit count in 1..20 and every canvas of at least 50x50,
\* dotSize >= 1, both anchor ranges are non-empty, and the digit block
\* placed at any anchor of the ranges lies inside the canvas.
C3_LayoutFeasible ==
    (lay.pc # "start" /\ lay.ncount \in 1..20) =>
        /\ lay.sz.dotSize >= 1
        /\ lay.xr.lo <= lay.xr.hi
        /\ lay.yr.lo <= lay.yr.hi
        /\ \A ax \in lay.xr.lo..lay.xr.hi :
              ax >= 0 /\ ax + BlockWidth(lay.ncount, lay.sz) <= lay.width
        /\ \A ay \in lay.yr.lo..lay.yr.hi :
              ay >= 0 /\ ay + BlockHeight(lay.sz) <= lay.height

----------------------------------------------------------------------------
(* SpecPalette: getRandomPalette for every CircleCount from -1 up and      *)
(* every sampled outcome of its draws.                                     *)

PaletteInit ==
    /\ pal \in [pc : {"start"}, circleCount : (-1)..MaxCircleCount]
    /\ imgs = Idle /\ rngs = Idle /\ lay = Idle /\ circ = Idle
    /\ dist = Idle /\ dig = Idle /\ http = Idle

\* One call of getRandomPalette.  ns records, for each variant, the n that
\* randomBrightness computed from its draw.
BuildPalette ==
    /\ pal.pc = "start"
    /\ \E tape \in Tapes(2 + Max2(pal.circleCount, 1)) :
          LET rng == Taped(tape)
              res == getRandomPalette(pal.circleCount, rng)
              prim == res.palette[2]
          IN  pal' = [pc |-> IF res.ok THEN "built" ELSE "panic",
                      circleCount |-> pal.circleCount,
                      palette |-> res.palette,
                      ns |-> IF res.ok
                             THEN [i \in 2..pal.circleCount |->
                                     BrightnessDelta(prim,
                                        BrightnessDraw(prim, 255,
                                                       Skip(rng, i + 1)))]
                             ELSE <<>>]
    /\ UNCHANGED <<imgs, rngs, lay, circ, dist, dig, http>>

PaletteNext == BuildPalette

SpecPalette == PaletteInit /\ [][PaletteNext]_vars

\* The structure C2 describes, of a palette p built for circleCount.
PaletteStructure(p, circleCount) ==
    /\ Len(p) = circleCount + 1
    /\ p[1].A = 0
    /\ p[2].R \in 0..128 /\ p[2].G \in 0..128 /\ p[2].B \in 0..128
    /\ \A i \in 2..circleCount :
          /\ p[i + 1].R - p[2].R = p[i + 1].G - p[2].G
          /\ p[i + 1].G - p[2].G = p[i + 1].B - p[2].B

\* C2 as stated: for every circleCount, getRandomPalette builds a palette
\* of length circleCount+1 whose index 0 is transparent, whose index 1 is
\* the primary colour with channels in [0,128], and whose variants differ
\* from the primary by one delta on R, G and B.
C2_PaletteStructureAlways ==
    pal.pc # "start" =>
        pal.pc = "built" /\ PaletteStructure(pal.palette, pal.circleCount)

\* C2 as amended: that holds for every circleCount >= 1; for
\* circleCount <= 0 getRandomPalette panics and builds no palette.
C2_PaletteStructure ==
    pal.pc # "start" =>
        IF pal.circleCount >= 1
        THEN pal.pc = "built" /\ PaletteStructure(pal.palette, pal.circleCount)
        ELSE pal.pc = "panic"

\* A palette with two variants of different, non-zero deltas.
C2_Witness ==
    /\ pal.pc = "built" /\ pal.circleCount = 3
    /\ pal.ns[2] # 0 /\ pal.ns[3] # 0 /\ pal.ns[2] # pal.ns[3]
    /\ pal.palette[3] # pal.palette[4]

\* C10: for a primary colour with channels in [0,128] and every draw of
\* randomBrightness(prim, 255), each of R+n, G+n, B+n lies in [0,254], so
\* each variant channel is the primary channel plus n, unwrapped.
C10_BrightnessNeverWraps ==
    pal.pc = "built" =>
        \A i \in 2..pal.circleCount :
            LET prim == pal.palette[2]
                v == pal.palette[i + 1]
                n == pal.ns[i]
            IN  /\ prim.R + n \in 0..254 /\ v.R = prim.R + n
                /\ prim.G + n \in 0..254 /\ v.G = prim.G + n
                /\ prim.B + n \in 0..254 /\ v.B = prim.B + n

\* A darker variant (n < 0) and the brightest one a primary allows.
C10_Witness ==
    /\ pal.pc = "built" /\ pal.circleCount = 3
    /\ pal.ns[2] < 0
    /\ max3(pal.palette[2].R, pal.palette[2].G, pal.palette[2].B)
          + pal.ns[3] = 254 - min3(pal.palette[2].R, pal.palette[2].G,
                                   pal.palette[2].B)

----------------------------------------------------------------------------
(* SpecCircles: the loop of fillWithCircles on the canvas and with the     *)
(* dot size of a render that reached it, every sampled outcome of the      *)
(* draws of a circle explored.                                             *)

CircleCanvases == {<<5, 8>>, <<64, 60>>, <<120, 100>>}

\* The renders whose anchor draws succeed.
Anchored(width, height, ncount) ==
    LET sz == calculateSizes(width, height, ncount)
    IN  /\ ~Empty(AnchorXRange(width, height, ncount, sz))
        /\ ~Empty(AnchorYRange(width, height, sz))

CirclesInit ==
    /\ \E c \in CircleCanvases, ncount \in 1..2, n \in 2..MaxCircleCount :
          /\ Anchored(c[1], c[2], ncount)
          /\ circ = [pc |-> "loop", width |-> c[1], height |-> c[2],
                     n |-> n, i |-> 0,
                     maxradius |-> calculateSizes(c[1], c[2], ncount).dotSize,
                     circle |-> <<>>]
    /\ imgs = Idle /\ rngs = Idle /\ lay = Idle /\ pal = Idle
    /\ dist = Idle /\ dig = Idle /\ http = Idle

\* One turn of the loop of fillWithCircles.
FillTurn ==
    /\ circ.pc = "loop" /\ circ.i < circ.n
    /\ \E tape \in Tapes(4) :
          LET one == FillOne(circ.n, circ.maxradius, circ.width, circ.height,
                             Taped(tape))
          IN  circ' = [circ EXCEPT !.pc = IF one.ok THEN "loop" ELSE "panic",
                                   !.i = @ + 1, !.circle = one.circle]
    /\ UNCHANGED <<imgs, rngs, lay, pal, dist, dig, http>>

CirclesNext == FillTurn

SpecCircles == CirclesInit /\ [][CirclesNext]_vars

\* C4: every background circle, of radius r and centre (cx, cy), has
\* cx-r >= 0, cx+r < width, cy-r >= 0 and cy+r < height: the whole disc
\* lies inside the canvas.
C4_CircleContained ==
    circ.circle # <<>> =>
        LET c == circ.circle
        IN  /\ c.x - c.r >= 0 /\ c.x + c.r < circ.width
            /\ c.y - c.r >= 0 /\ c.y + c.r < circ.height
            /\ CirclePixels(c.x, c.y, c.r)
                  \subseteq Pixels(circ.width, circ.height)

----------------------------------------------------------------------------
(* SpecDistort: distort on every raster of index 0 and 1 of a small        *)
(* canvas, for every amplitude and period.                                 *)

WarpCanvases == {<<3, 3>>, <<2, 3>>, <<4, 2>>}

DistortInit ==
    /\ \E c \in WarpCanvases :
          dist \in [pc : {"start"}, w : {c[1]}, h : {c[2]},
                    pix : [Pixels(c[1], c[2]) -> {0, 1}],
                    amp4 : 0..MaxAmp4, period4 : {4, 8, 16}]
    /\ imgs = Idle /\ rngs = Idle /\ lay = Idle /\ pal = Idle
    /\ circ = Idle /\ dig = Idle /\ http = Idle

\* m.distort(amp, per); pix stays the raster it was given.
ApplyDistort ==
    /\ dist.pc = "start"
    /\ dist' = [pc |-> "done", w |-> dist.w, h |-> dist.h, pix |-> dist.pix,
                amp4 |-> dist.amp4, period4 |-> dist.period4,
                out |-> distort(dist.pix, dist.amp4, dist.period4,
                                dist.w, dist.h)]
    /\ UNCHANGED <<imgs, rngs, lay, pal, circ, dig, http>>

DistortNext == ApplyDistort

SpecDistort == DistortInit /\ [][DistortNext]_vars

\* C5: distort sets every pixel (x, y) of a fresh grid to the index of the
\* raster it was given at (x + trunc(amp*sin(y*dx)), y + trunc(amp*cos(x*dx)))
\* or to 0 when that lies outside the canvas, whatever it wrote before;
\* with amplitude 0 the result is the raster it was given.
C5_DistortReadsSource ==
    dist.pc = "done" =>
        /\ DOMAIN dist.out = Pixels(dist.w, dist.h)
        /\ \A p \in Pixels(dist.w, dist.h) :
              LET sx == p[1] + Trunc(dist.amp4 * Sin(p[2], dist.period4), 4)
                  sy == p[2] + Trunc(dist.amp4 * Cos(p[1], dist.period4), 4)
              IN  dist.out[p] =
                    IF sx \in 0..(dist.w - 1) /\ sy \in 0..(dist.h - 1)
                    THEN dist.pix[<<sx, sy>>] ELSE 0
        /\ dist.amp4 = 0 => dist.out = dist.pix

\* A warp that reads a pixel the loop has already overwritten with
\* another index, and one that reads outside the canvas.
C5_Witness ==
    /\ dist.pc = "done" /\ dist.amp4 >= 4 /\ dist.period4 = 16
    /\ \E p \in Pixels(dist.w, dist.h) :
          LET src == WarpSource(p[1], p[2], dist.amp4, dist.period4)
          IN  /\ src \in Pixels(dist.w, dist.h)
              /\ src[1] * dist.h + src[2] < p[1] * dist.h + p[2]
              /\ dist.out[src] # dist.pix[src]
              /\ dist.out[p] = 1
    /\ \E p \in Pixels(dist.w, dist.h) :
          /\ WarpSource(p[1], p[2], dist.amp4, dist.period4)
                \notin Pixels(dist.w, dist.h)
          /\ dist.pix[p] = 1 /\ dist.out[p] = 0

----------------------------------------------------------------------------
(* SpecDigit: drawDigit with the dot size of a layout, every sampled       *)
(* outcome of its two draws explored.                                      *)

DigitCanvases == {<<50, 50>>, <<64, 60>>, <<120, 100>>, <<240, 80>>}

DigitInit ==
    /\ \E c \in DigitCanvases, ncount \in 1..2, n \in {0, 7} :
          /\ Anchored(c[1], c[2], ncount)
          /\ LET sz == calculateSizes(c[1], c[2], ncount)
                 xr == AnchorXRange(c[1], c[2], ncount, sz)
                 yr == AnchorYRange(c[1], c[2], sz)
             IN  \E x \in {xr.lo, xr.hi}, y \in {yr.lo, yr.hi} :
                   dig = [pc |-> "start", n |-> n, x |-> x, y |-> y,
                          dotSize |-> sz.dotSize, MaxSkew4 |-> 2]
    /\ imgs = Idle /\ rngs = Idle /\ lay = Idle /\ pal = Idle
    /\ circ = Idle /\ dist = Idle /\ http = Idle

\* m.drawDigit(font[n], x, y, MaxSkew): offsets is the set of values the
\* jitter draw m.rng.Int(-r, r) ranges over, jit the one drawn.
DrawGlyph ==
    /\ dig.pc = "start"
    /\ \E tape \in Tapes(2) :
          LET d == DigitDraws(dig.MaxSkew4, dig.dotSize, Taped(tape))
              jr == JitterRange(dig.dotSize)
          IN  dig' = [pc |-> "drawn", n |-> dig.n, x |-> dig.x, y |-> dig.y,
                      dotSize |-> dig.dotSize, MaxSkew4 |-> dig.MaxSkew4,
                      offsets |-> jr.lo..jr.hi, jit |-> d.jit,
                      skf4 |-> d.skf4,
                      centres |-> DigitCentres(dig.n, dig.x, dig.y, d.skf4,
                                               d.jit, dig.dotSize)]
    /\ UNCHANGED <<imgs, rngs, lay, pal, circ, dist, http>>

DigitNext == DrawGlyph

SpecDigit == DigitInit /\ [][DigitNext]_vars

\* Every row of the glyph is drawn at the anchor plus one offset, which is
\* one of the offsets the draw ranges over.
OneOffset ==
    /\ dig.jit \in dig.offsets
    /\ \A c \in dig.centres :
          c.y = dig.y + dig.jit + c.row * dig.dotSize

\* C9 as stated: the vertical anchor of a glyph is offset once, by the
\* same offset for every row, and the offsets that can be drawn are
\* exactly the integers in [-dotSize, dotSize].
C9_JitterWithinDotSize ==
    dig.pc = "drawn" =>
        OneOffset /\ dig.offsets = (-dig.dotSize)..dig.dotSize

\* C9 as amended: the offsets that can be drawn are exactly the integers
\* in [-(dotSize/2), dotSize/2], the division rounding down.
C9_JitterWithinHalfDotSize ==
    dig.pc = "drawn" =>
        OneOffset
        /\ dig.offsets = (-(dig.dotSize \div 2))..(dig.dotSize \div 2)

\* A glyph drawn with the largest offset its dot size allows, not zero.
C9_Witness ==
    /\ dig.pc = "drawn" /\ dig.dotSize >= 2
    /\ dig.jit = dig.dotSize \div 2
    /\ dig.skf4 # 0
    /\ \E c1 \in dig.centres, c2 \in dig.centres : c1.row # c2.row

----------------------------------------------------------------------------
(* SpecServe: requests to one handler of Server(imgWidth, imgHeight, opts) *)
(* over a challenge store.  A path is the sequence of its elements: "/",   *)
(* "." and names without either.  The store knows the id "a"; "b" has     *)
(* expired.                                                                *)

\* The last index of s that holds t, 0 when none does.
LastIndex(s, t) ==
    LET I == {i \in 1..Len(s) : s[i] = t}
    IN  IF I = {} THEN 0 ELSE CHOOSE i \in I : \A j \in I : j <= i

\* path.Split: the path up to and including its last slash, and the rest.
PathSplit(p) ==
    LET i == LastIndex(p, "/")
    IN  [dir |-> SubSeq(p, 1, i), file |-> SubSeq(p, i + 1, Len(p))]

\* path.Ext: from the last dot of the last element on, empty without one.
PathExt(p) ==
    LET i == LastIndex(p, ".")
    IN  IF i > LastIndex(p, "/") THEN SubSeq(p, i, Len(p)) ELSE <<>>

\* strings.TrimSuffix
TrimSuffix(s, suffix) ==
    IF /\ Len(suffix) <= Len(s)
       /\ SubSeq(s, Len(s) - Len(suffix) + 1, Len(s)) = suffix
    THEN SubSeq(s, 1, Len(s) - Len(suffix)) ELSE s

\* path.Base: the last element, trailing slashes removed; "." for the
\* empty path and "/" for one of slashes only.
RECURSIVE StripSlashes(_)
StripSlashes(p) ==
    IF p # <<>> /\ p[Len(p)] = "/"
    THEN StripSlashes(SubSeq(p, 1, Len(p) - 1)) ELSE p

PathBase(p) ==
    IF p = <<>> THEN <<".">>
    ELSE LET q == StripSlashes(p)
             last == SubSeq(q, LastIndex(q, "/") + 1, Len(q))
         IN  IF last = <<>> THEN <<"/">> ELSE last

PngExt == <<".", "png">>

\* Digits(id) of the store: nothing for an unknown or expired id.
Digits(store, id) == IF id \in DOMAIN store THEN store[id] ELSE <<>>

\* Reload(id): false for an unknown id, else the id gets fresh digits of
\* the same length.
Reload(store, id, fresh) ==
    IF Digits(store, id) = <<>> THEN [ok |-> FALSE, store |-> store]
    ELSE [ok |-> TRUE, store |-> [store EXCEPT ![id] = fresh]]

RandomDigits(length) == {d \in DigitChoices : Len(d) = length}

\* The identifier as the stream's seed takes it.
IdNumber(id) == IF id = <<"a">> THEN 1 ELSE 2

\* A raster of no pixels: every write to it is dropped.
NoRaster == NewPaletted(0, 0)

RECURSIVE AfterDigits(_, _, _, _)
AfterDigits(k, MaxSkew4, dotSize, rng) ==
    IF k = 0 THEN rng
    ELSE AfterDigits(k - 1, MaxSkew4, dotSize,
                     DigitDraws(MaxSkew4, dotSize, rng).rng)

RECURSIVE AfterStrikes(_, _, _, _, _, _)
AfterStrikes(k, warp, maxx, maxy, dotSize, rng) ==
    IF k <= 0 THEN rng
    ELSE AfterStrikes(k - 1, warp, maxx, maxy, dotSize,
             strikeThrough(NoRaster, warp, maxx, maxy, dotSize, rng).rng)

\* Whether NewImage returns, as opposed to panicking: its statements in
\* order, with their draws, the pixels left out.
NewImageReturns(id, digits, width, height, opts) ==
    LET p == getRandomPalette(opts.CircleCount,
                 Seeded(deriveSeed(imageSeedPurpose, id, digits)))
        sz == calculateSizes(width, height, Len(digits))
        r1 == Skip(p.rng, 2)
        r2 == AfterDigits(Len(digits), opts.MaxSkew4, sz.dotSize, r1)
        r3 == AfterStrikes(opts.StrikeCount, opts.StrikeWarp, width, height,
                           sz.dotSize, r2)
    IN  /\ p.ok
        /\ ~Empty(AnchorXRange(width, height, Len(digits), sz))
        /\ ~Empty(AnchorYRange(width, height, sz))
        /\ fillWithCircles(NoRaster, opts.CircleCount, sz.dotSize,
                           width, height, Skip(r3, 2)).ok

Handlers ==
    {[imgWidth |-> 54, imgHeight |-> 56, opts |-> OptsOf(2, 0)],
     [imgWidth |-> 64, imgHeight |-> 60, opts |-> OptsOf(3, 0)],
     [imgWidth |-> 64, imgHeight |-> 60, opts |-> OptsOf(1, 0)],
     [imgWidth |-> 5, imgHeight |-> 8, opts |-> OptsOf(2, 1)]}

Dirs ==
    {<<>>, <<"/">>, <<"/", "foo", "/">>, <<"/", "foo", "/", "download", "/">>,
     <<"/", "download", "/", "/">>, <<"/", "download", "/", "foo", "/">>}

Files ==
    {<<>>, <<"a">>, <<".", "png">>, <<"a", ".">>, <<"a", ".", "png">>,
     <<"b", ".", "png">>, <<"a", ".", "gif">>, <<"a", ".", "b", ".", "png">>}

ServeInit ==
    /\ \E h \in Handlers, da \in {<<7>>, <<1, 7>>} :
          http = [pc |-> "idle", h |-> h,
                  store |-> [id \in {<<"a">>, <<"b">>} |->
                               IF id = <<"a">> THEN da ELSE <<>>]]
    /\ imgs = Idle /\ rngs = Idle /\ lay = Idle /\ pal = Idle
    /\ circ = Idle /\ dist = Idle /\ dig = Idle

NotFound == [status |-> 404, contentType |-> "text/plain", rendered |-> 0]

\* What ServeHTTP answers to a request of the given path and reload
\* parameter, and the store it leaves: fresh is the digits a reload
\* installs, encodes whether enc.Encode succeeds.
Response(h, store, urlPath, reload, fresh, encodes) ==
    LET split == PathSplit(urlPath)
        ext == PathExt(split.file)
        id == TrimSuffix(split.file, ext)
        rel == IF reload # "" THEN Reload(store, id, fresh)
               ELSE [ok |-> TRUE, store |-> store]
        digits == Digits(rel.store, id)
        ctype == IF PathBase(split.dir) = <<"download">>
                 THEN "application/octet-stream" ELSE "image/png"
    IN  IF ext # PngExt \/ id = <<>>
        THEN [pc |-> "served", store |-> store, resp |-> NotFound]
        ELSE IF ~rel.ok
        THEN [pc |-> "served", store |-> rel.store, resp |-> NotFound]
        ELSE IF Len(digits) = 0
        THEN [pc |-> "served", store |-> rel.store, resp |-> NotFound]
        ELSE IF ~NewImageReturns(IdNumber(id), digits, h.imgWidth,
                                 h.imgHeight, h.opts)
        THEN [pc |-> "panic", store |-> rel.store,
              resp |-> [status |-> 0, contentType |-> "", rendered |-> 1]]
        ELSE IF ~encodes
        THEN [pc |-> "served", store |-> rel.store,
              resp |-> [status |-> 500, contentType |-> "text/plain",
                        rendered |-> 1]]
        ELSE [pc |-> "served", store |-> rel.store,
              resp |-> [status |-> 200, contentType |-> ctype,
                        rendered |-> 1]]

\* One request served from beginning to end.  before is the store the
\* request found.
ServeHTTP ==
    \E dir \in Dirs, file \in Files, reload \in {"", "true"},
       encodes \in BOOLEAN :
        LET urlPath == dir \o file
            id == TrimSuffix(PathSplit(urlPath).file,
                             PathExt(PathSplit(urlPath).file))
        IN  \E fresh \in (IF reload # "" /\ Digits(http.store, id) # <<>>
                           THEN RandomDigits(Len(Digits(http.store, id)))
                           ELSE {<<>>}) :
              LET res == Response(http.h, http.store, urlPath, reload,
                                  fresh, encodes)
              IN  /\ http' = [pc |-> res.pc, h |-> http.h,
                              store |-> res.store, before |-> http.store,
                              urlPath |-> urlPath, reload |-> reload,
                              encodes |-> encodes, resp |-> res.resp]
                  /\ UNCHANGED <<imgs, rngs, lay, pal, circ, dist, dig>>

ServeNext == ServeHTTP

SpecServe == ServeInit /\ [][ServeNext]_vars

\* C7: ServeHTTP answers 404 without rendering when the extension is not
\* ".png", the id is empty, a requested reload fails or the id has no
\* digits; every other request renders one image and, the encoder
\* succeeding, is answered 200 with Content-Type
\* "application/octet-stream" under a last directory "download" and
\* "image/png" otherwise.
C7_ResponseDecision ==
    http.pc # "idle" =>
        LET file == PathSplit(http.urlPath).file
            dir == PathSplit(http.urlPath).dir
            id == TrimSuffix(file, PathExt(file))
            r == http.resp
        IN  IF \/ PathExt(file) # PngExt
               \/ id = <<>>
               \/ http.reload # "" /\ Digits(http.before, id) = <<>>
               \/ Digits(http.store, id) = <<>>
            THEN r.status = 404 /\ r.rendered = 0
            ELSE /\ r.rendered = 1
                 /\ http.encodes =>
                       /\ r.status = 200
                       /\ r.contentType =
                             IF PathBase(dir) = <<"download">>
                             THEN "application/octet-stream"
                             ELSE "image/png"

====
